---------------------------- MODULE Spec2Model ----------------------------
(***************************************************************************)
(* A model of tag_crawler: the breadth-first crawl of crawl_website, the   *)
(* robots gate is_allowed, the link normalisation done inside the crawl,   *)
(* build_tree, the structural validation of main and the render pass of    *)
(* write_tree_html.                                                        *)
(*                                                                         *)
(* A URL string is a sequence of tokens.  The four delimiters ":", "/",    *)
(* "?" and "#" are tokens of their own; every other token ("https", "ex",  *)
(* "a", ...) stands for a run of letters that holds no delimiter.          *)
(***************************************************************************)
EXTENDS Integers, Sequences, FiniteSets, TLC

VARIABLES
    \* crawl_website and the heading pass of main
    visited, queue, pc, current_url, depth, links, max_pages, max_depth,
    robots_true, robots_false, content_fetched, add_log, enq_log, deq_log,
    last, slept, page_structures, todo, responded, depth_of, link_graph,
    \* link normalisation, applied to one href and then to its own result
    n_base, n_href, n_once, n_twice, n_pc,
    \* build_tree, the validation loop of main, write_tree_html
    page_title, headings, t_pc, t_i, nodes, stack, raised, v_stack, v_at,
    errors_found, error_flags, marks, placeholder, report_class,
    \* is_allowed on one robots.txt response
    r_url, r_resp, r_result, r_pc,
    \* toggleContent in the output document
    contents, active, calls

crawlVars == <<visited, queue, pc, current_url, depth, links, max_pages,
               max_depth, robots_true, robots_false, content_fetched,
               add_log, enq_log, deq_log, last, slept, page_structures,
               todo, responded, depth_of, link_graph>>
normVars == <<n_base, n_href, n_once, n_twice, n_pc>>
treeVars == <<page_title, headings, t_pc, t_i, nodes, stack, raised, v_stack,
              v_at, errors_found, error_flags, marks, placeholder,
              report_class>>
robotsVars == <<r_url, r_resp, r_result, r_pc>>
toggleVars == <<contents, active, calls>>
vars == <<crawlVars, normVars, treeVars, robotsVars, toggleVars>>

-----------------------------------------------------------------------------
(* Strings *)

Delims == {":", "/", "?", "#"}

\* str.find(c), 1-based; 0 when c does not occur
Find(s, c) ==
    IF \E i \in 1..Len(s) : s[i] = c
    THEN CHOOSE i \in 1..Len(s) : s[i] = c /\ \A j \in 1..(i - 1) : s[j] # c
    ELSE 0

\* the first position >= from holding one of cs; Len(s) + 1 when none does
FindAny(s, cs, from) ==
    IF \E i \in from..Len(s) : s[i] \in cs
    THEN CHOOSE i \in from..Len(s) :
             s[i] \in cs /\ \A j \in from..(i - 1) : s[j] \notin cs
    ELSE Len(s) + 1

\* s.rstrip('/')
RECURSIVE rstrip_slash(_)
rstrip_slash(s) ==
    IF s # <<>> /\ s[Len(s)] = "/"
    THEN rstrip_slash(SubSeq(s, 1, Len(s) - 1))
    ELSE s

\* s.split('#')[0]
split_hash_0(s) ==
    IF Find(s, "#") > 0 THEN SubSeq(s, 1, Find(s, "#") - 1) ELSE s

\* s.split('/'): the list of segments
RECURSIVE split_slash(_)
split_slash(s) ==
    IF Find(s, "/") = 0
    THEN <<s>>
    ELSE <<SubSeq(s, 1, Find(s, "/") - 1)>>
         \o split_slash(SubSeq(s, Find(s, "/") + 1, Len(s)))

\* '/'.join(segs)
RECURSIVE join_slash(_)
join_slash(segs) ==
    IF segs = <<>> THEN <<>>
    ELSE IF Len(segs) = 1 THEN segs[1]
    ELSE segs[1] \o <<"/">> \o join_slash(Tail(segs))

\* filter(None, segs): drops the empty segments
RECURSIVE filter_nonempty(_)
filter_nonempty(segs) ==
    IF segs = <<>> THEN <<>>
    ELSE IF segs[1] = <<>> THEN filter_nonempty(Tail(segs))
    ELSE <<segs[1]>> \o filter_nonempty(Tail(segs))

-----------------------------------------------------------------------------
(* urllib.parse as the crawler uses it *)

\* schemes of urllib's uses_relative and uses_netloc among the model's tokens
uses_relative == {<<>>, <<"https">>}
uses_netloc == {<<>>, <<"https">>}

\* urlparse(url, scheme=default) gives scheme, netloc, path, query and
\* fragment; the five steps of urlsplit follow, each handing the parts it
\* has cut to the next.

\* if '?' in url: url, query = url.split('?', 1)
split_query(scheme, netloc, url, fragment) ==
    [scheme |-> scheme, netloc |-> netloc,
     path |-> IF Find(url, "?") > 0
              THEN SubSeq(url, 1, Find(url, "?") - 1) ELSE url,
     query |-> IF Find(url, "?") > 0
               THEN SubSeq(url, Find(url, "?") + 1, Len(url)) ELSE <<>>,
     fragment |-> fragment]

\* if '#' in url: url, fragment = url.split('#', 1)
split_fragment(scheme, netloc, url) ==
    IF Find(url, "#") > 0
    THEN split_query(scheme, netloc, SubSeq(url, 1, Find(url, "#") - 1),
                     SubSeq(url, Find(url, "#") + 1, Len(url)))
    ELSE split_query(scheme, netloc, url, <<>>)

\* if url[:2] == '//': the netloc runs to the next '/', '?' or '#'
split_netloc(scheme, url) ==
    IF Len(url) >= 2 /\ url[1] = "/" /\ url[2] = "/"
    THEN split_fragment(scheme,
                        SubSeq(url, 3, FindAny(url, {"/", "?", "#"}, 3) - 1),
                        SubSeq(url, FindAny(url, {"/", "?", "#"}, 3),
                               Len(url)))
    ELSE split_fragment(scheme, <<>>, url)

\* the text before the first ':' is the scheme when it holds scheme
\* characters only
split_scheme(url, default, i) ==
    IF i > 1 /\ \A j \in 1..(i - 1) : url[j] \notin Delims
    THEN split_netloc(SubSeq(url, 1, i - 1), SubSeq(url, i + 1, Len(url)))
    ELSE split_netloc(default, url)

urlparse_d(url, default) == split_scheme(url, default, Find(url, ":"))

urlparse(url) == urlparse_d(url, <<>>)

\* urlunparse of the five parts
unparse_tail(url, query, fragment) ==
    (IF query # <<>> THEN url \o <<"?">> \o query ELSE url)
    \o (IF fragment # <<>> THEN <<"#">> \o fragment ELSE <<>>)

unparse_scheme(scheme, url, query, fragment) ==
    IF scheme # <<>>
    THEN unparse_tail(scheme \o <<":">> \o url, query, fragment)
    ELSE unparse_tail(url, query, fragment)

urlunparse(scheme, netloc, path, query, fragment) ==
    IF netloc # <<>>
       \/ (scheme # <<>> /\ scheme \in uses_netloc
           /\ ~(Len(path) >= 2 /\ path[1] = "/" /\ path[2] = "/"))
    THEN unparse_scheme(scheme,
                        <<"/", "/">> \o netloc
                        \o (IF path # <<>> /\ path[1] # "/"
                            THEN <<"/">> ELSE <<>>)
                        \o path,
                        query, fragment)
    ELSE unparse_scheme(scheme, path, query, fragment)

\* urljoin(base, url); the model's alphabet has no '.', so no dot segment

\* base_parts = bpath.split('/'); if base_parts[-1] != '': del base_parts[-1]
base_parts(parts) ==
    IF parts[Len(parts)] # <<>> THEN SubSeq(parts, 1, Len(parts) - 1)
    ELSE parts

\* segments[1:-1] = filter(None, segments[1:-1])
filter_inner(segs) ==
    IF Len(segs) <= 2 THEN segs
    ELSE <<segs[1]>> \o filter_nonempty(SubSeq(segs, 2, Len(segs) - 1))
         \o <<segs[Len(segs)]>>

resolved_path(bpath, path) ==
    IF path[1] = "/" THEN path
    ELSE join_slash(filter_inner(base_parts(split_slash(bpath))
                                 \o split_slash(path)))

or_slash(path) == IF path = <<>> THEN <<"/">> ELSE path

join_parsed(b, u, url) ==
    IF u.scheme # b.scheme \/ u.scheme \notin uses_relative THEN url
    ELSE IF u.scheme \in uses_netloc /\ u.netloc # <<>>
    THEN urlunparse(u.scheme, u.netloc, u.path, u.query, u.fragment)
    ELSE IF u.path = <<>>
    THEN urlunparse(u.scheme, b.netloc, b.path,
                    IF u.query = <<>> THEN b.query ELSE u.query, u.fragment)
    ELSE urlunparse(u.scheme, b.netloc, or_slash(resolved_path(b.path, u.path)),
                    u.query, u.fragment)

join_base(b, url) ==
    CHOOSE joined \in {join_parsed(bp, u, url) :
                         bp \in {b}, u \in {urlparse_d(url, b.scheme)}} : TRUE

urljoin(base, url) ==
    IF base = <<>> THEN url
    ELSE IF url = <<>> THEN base
    ELSE join_base(urlparse(base), url)

-----------------------------------------------------------------------------
(* Link normalisation of crawl_website *)

is_internal(parsed_link, base_domain) ==
    parsed_link.netloc = base_domain \/ parsed_link.netloc = <<>>

is_internal_link(link, base_domain) == is_internal(urlparse(link), base_domain)

\* the three string steps applied to every href: urljoin, split('#')[0],
\* rstrip('/')
resolve_href(cur, href) ==
    rstrip_slash(split_hash_0(urljoin(cur, href)))

\* normalized_href: scheme://netloc + (path or '/')
format_href(parsed_href) ==
    parsed_href.scheme \o <<":", "/", "/">> \o parsed_href.netloc
    \o or_slash(parsed_href.path)

normalized_href(href) == format_href(urlparse(href))

-----------------------------------------------------------------------------
(* is_allowed: urllib.robotparser as the crawler uses it *)

\* a line of robots.txt: "User-agent: *", "Disallow: <path>", or a line
\* without ':' (which the parser skips)
UserAgentStar == [key |-> "user-agent", value |-> <<"*">>]
Disallow(path) == [key |-> "disallow", value |-> path]
Garbage == [key |-> "garbage", value |-> <<>>]

\* RobotFileParser.parse: the rule lines of the entries for "*", in order.
\* state 0: no entry open, 1: user-agent seen, 2: rule seen.
RECURSIVE parse_from(_, _, _, _, _)
parse_from(lines, k, state, entry, entries) ==
    IF k > Len(lines)
    THEN IF state = 2 THEN Append(entries, entry) ELSE entries
    ELSE IF lines[k].key = "user-agent"
    THEN IF state = 2
         THEN parse_from(lines, k + 1, 1, <<>>, Append(entries, entry))
         ELSE parse_from(lines, k + 1, 1, entry, entries)
    ELSE IF lines[k].key = "disallow"
    THEN IF state # 0
         THEN parse_from(lines, k + 1, 2, Append(entry, lines[k].value),
                         entries)
         ELSE parse_from(lines, k + 1, state, entry, entries)
    ELSE parse_from(lines, k + 1, state, entry, entries)

parse(lines) == parse_from(lines, 1, 0, <<>>, <<>>)

\* RobotFileParser.read on the response to GET robots.txt: urlopen raises
\* URLError on a timeout or a refused connection; HTTPError 401/403 sets
\* disallow_all, any other 4xx sets allow_all, 5xx sets neither; a body is
\* decoded as UTF-8 (which may raise) and parsed.
read(resp) ==
    IF resp.kind \in {"timeout", "refused"}
    THEN [raises |-> TRUE, disallow_all |-> FALSE, allow_all |-> FALSE,
          last_checked |-> FALSE, entries |-> <<>>]
    ELSE IF resp.status >= 400
    THEN [raises |-> FALSE, disallow_all |-> resp.status \in {401, 403},
          allow_all |-> resp.status \notin {401, 403} /\ resp.status < 500,
          last_checked |-> FALSE, entries |-> <<>>]
    ELSE IF ~resp.decodable
    THEN [raises |-> TRUE, disallow_all |-> FALSE, allow_all |-> FALSE,
          last_checked |-> FALSE, entries |-> <<>>]
    ELSE [raises |-> FALSE, disallow_all |-> FALSE, allow_all |-> FALSE,
          last_checked |-> TRUE, entries |-> parse(resp.lines)]

starts_with(s, prefix) ==
    Len(prefix) <= Len(s) /\ SubSeq(s, 1, Len(prefix)) = prefix

\* Entry.allowance: the first rule line that applies decides; an empty
\* Disallow allows everything
RECURSIVE allowance(_, _)
allowance(rules, filename) ==
    IF rules = <<>> THEN TRUE
    ELSE IF rules[1] = <<>> THEN TRUE
    ELSE IF starts_with(filename, rules[1]) THEN FALSE
    ELSE allowance(Tail(rules), filename)

\* RobotFileParser.can_fetch(user_agent, url); every entry of the model is
\* for "*", and the first one parsed is the default entry
robots_filename(p) ==
    or_slash(urlunparse(<<>>, <<>>, p.path, p.query, p.fragment))

can_fetch(rp, url) ==
    IF rp.disallow_all THEN FALSE
    ELSE IF rp.allow_all THEN TRUE
    ELSE IF ~rp.last_checked THEN FALSE
    ELSE IF rp.entries = <<>> THEN TRUE
    ELSE allowance(rp.entries[1], robots_filename(urlparse(url)))

\* is_allowed(url): False when read or can_fetch raises
allowed_after_read(rp, url) == IF rp.raises THEN FALSE ELSE can_fetch(rp, url)

is_allowed(url, resp) == allowed_after_read(read(resp), url)

-----------------------------------------------------------------------------
(* Bounds and input sets *)

MaxTailLen == 4
MaxHeadings == 4
MaxLinks == 2
MaxPagesBound == 4
MaxDepthBound == 1
MaxRobotsLines == 2
MaxBlocks == 3
MaxToggles == 3

RECURSIVE SeqsUpTo(_, _)
SeqsUpTo(S, n) ==
    IF n = 0 THEN {<<>>}
    ELSE LET shorter == SeqsUpTo(S, n - 1)
         IN  shorter \cup {Append(s, x) : s \in shorter, x \in S}

Seed == <<"https", ":", "/", "/", "ex">>
SeedDomain == <<"ex">>

\* what an href may start with, and the tokens that may follow
HrefPrefixes == {<<>>, <<"https", ":", "/", "/", "ex">>,
                 <<"https", ":", "/", "/", "ot">>, <<"/", "/", "ex">>,
                 <<"mailto", ":">>}
TailTokens == {"/", "a", "?", "#", "q"}
NormHrefs == {p \o t : p \in HrefPrefixes, t \in SeqsUpTo(TailTokens, MaxTailLen)}
NormBases == {Seed, Seed \o <<"/">>, Seed \o <<"/", "a">>,
              Seed \o <<"/", "a", "/", "q">>}

None == <<"None">>

-----------------------------------------------------------------------------
(* Idle values: each specification leaves the other parts untouched *)

CrawlIdle ==
    /\ visited = {} /\ queue = <<>> /\ pc = "idle" /\ current_url = None
    /\ depth = 0 /\ links = <<>> /\ max_pages = 0 /\ max_depth = 0
    /\ robots_true = {} /\ robots_false = {} /\ content_fetched = {}
    /\ add_log = <<>> /\ enq_log = <<>> /\ deq_log = <<>> /\ last = "idle"
    /\ slept = TRUE /\ page_structures = <<>> /\ todo = {}
    /\ responded = {} /\ depth_of = <<>> /\ link_graph = {}
NormIdle ==
    /\ n_base = None /\ n_href = None /\ n_once = None /\ n_twice = None
    /\ n_pc = "idle"
TreeIdle ==
    /\ headings = <<>> /\ t_pc = "idle" /\ t_i = 0 /\ nodes = <<>>
    /\ stack = <<>> /\ raised = FALSE /\ v_stack = <<>> /\ v_at = 0
    /\ errors_found = <<>> /\ error_flags = <<>> /\ marks = <<>>
    /\ page_title = "idle" /\ placeholder = FALSE /\ report_class = "idle"
RobotsIdle ==
    /\ r_url = None /\ r_resp = None /\ r_result = FALSE /\ r_pc = "idle"
ToggleIdle ==
    /\ contents = <<>> /\ active = {} /\ calls = <<>>

-----------------------------------------------------------------------------
(* The normalisation applied to an href, then to its own result *)

InitNorm ==
    /\ n_base \in NormBases
    /\ n_href \in NormHrefs
    /\ n_once = None /\ n_twice = None /\ n_pc = "href"
    /\ CrawlIdle /\ TreeIdle /\ RobotsIdle /\ ToggleIdle

\* lines 211-226 on the href of a page
NormalizeResolved(href) ==
    IF is_internal_link(href, SeedDomain)
    THEN n_once' = normalized_href(href) /\ n_pc' = "once"
    ELSE n_once' = None /\ n_pc' = "external"

NormalizeHref ==
    /\ n_pc = "href"
    /\ NormalizeResolved(resolve_href(n_base, n_href))
    /\ UNCHANGED <<n_base, n_href, n_twice>>

\* lines 211-226 again, on the URL the first pass built
NormalizeResolvedAgain(href) ==
    IF is_internal_link(href, SeedDomain)
    THEN n_twice' = normalized_href(href) /\ n_pc' = "twice"
    ELSE n_twice' = None /\ n_pc' = "external_twice"

NormalizeAgain ==
    /\ n_pc = "once"
    /\ NormalizeResolvedAgain(resolve_href(n_base, n_once))
    /\ UNCHANGED <<n_base, n_href, n_once>>

NextNorm ==
    \/ NormalizeHref /\ UNCHANGED <<crawlVars, treeVars, robotsVars, toggleVars>>
    \/ NormalizeAgain /\ UNCHANGED <<crawlVars, treeVars, robotsVars, toggleVars>>

SpecNorm == InitNorm /\ [][NextNorm]_vars


-----------------------------------------------------------------------------
(* build_tree *)

\* HeadingNode(level, title): children starts empty.  A node is named by the
\* position of its heading; 0 names the virtual root.
HeadingNode(level, title) ==
    [level |-> level, title |-> title, children |-> <<>>]

\* root = HeadingNode(0, "Root"); stack = [root]
build_tree_start ==
    [nodes |-> [i \in {0} |-> HeadingNode(0, "Root")], stack |-> <<0>>,
     raised |-> FALSE]

\* the test of the while loop on the top of the stack
pop_test_gt(top_level, level) == top_level > level
pop_test(top_level, level) == top_level >= level

\* while stack and stack[-1].level >= level: stack.pop()
RECURSIVE pop_while(_, _, _)
pop_if(ns, st, level) ==
    IF st # <<>> /\ pop_test(ns[st[Len(st)]].level, level)
    THEN SubSeq(st, 1, Len(st) - 1)
    ELSE st
pop_while(ns, st, level) ==
    IF st # <<>> /\ pop_test(ns[st[Len(st)]].level, level)
    THEN pop_while(ns, SubSeq(st, 1, Len(st) - 1), level)
    ELSE st

\* one pass of the for loop, for the heading h at position id; stack[-1] on
\* an empty stack raises IndexError
build_tree_iter(t, id, h) ==
    LET st == pop_while(t.nodes, t.stack, h.level)
        top == st[Len(st)]
    IN  IF st = <<>>
        THEN [t EXCEPT !.stack = st, !.raised = TRUE]
        ELSE [nodes |-> [i \in DOMAIN t.nodes \cup {id} |->
                           IF i = id THEN HeadingNode(h.level, h.title)
                           ELSE IF i = top
                           THEN [t.nodes[i] EXCEPT
                                   !.children = Append(@, id)]
                           ELSE t.nodes[i]],
              stack |-> Append(st, id),
              raised |-> FALSE]

\* build_tree(headings), the whole call
RECURSIVE build_tree_from(_, _, _)
build_tree_from(t, hs, k) ==
    IF k > Len(hs) \/ t.raised THEN t
    ELSE build_tree_from(build_tree_iter(t, k, hs[k]), hs, k + 1)

build_tree(hs) == build_tree_from(build_tree_start, hs, 1)

-----------------------------------------------------------------------------
(* The structural check of main *)

\* if level > stack[-1] + 1
skipped_level_ge(level, top) == level >= top + 1
skipped_level(level, top) == level > top + 1

\* while stack and level <= stack[-1]: stack.pop()
RECURSIVE pop_levels(_, _)
pop_levels(st, level) ==
    IF st # <<>> /\ level <= st[Len(st)]
    THEN pop_levels(SubSeq(st, 1, Len(st) - 1), level)
    ELSE st

\* one pass of the for loop of lines 533-540 on the heading at position k
validate_iter(v, k, h) ==
    IF skipped_level(h.level, v.stack[Len(v.stack)])
    THEN [v EXCEPT !.errors_found = Append(@, TRUE), !.at = k,
                   !.broke = TRUE]
    ELSE [v EXCEPT !.stack = Append(pop_levels(v.stack, h.level), h.level)]

validate_start ==
    [stack |-> <<0>>, errors_found |-> <<>>, at |-> 0, broke |-> FALSE]

RECURSIVE validate_from(_, _, _)
validate_from(v, hs, k) ==
    IF k > Len(hs) \/ v.broke THEN v
    ELSE validate_from(validate_iter(v, k, hs[k]), hs, k + 1)

\* errors_found of lines 530-540 for a non-empty heading list
validate(hs) == validate_from(validate_start, hs, 1).errors_found

-----------------------------------------------------------------------------
(* write_tree_html *)

\* if node.level == parent_level + 1: "ok", else "error"
css_class_no_inc(level, parent_level) ==
    IF level = parent_level THEN "ok" ELSE "error"
css_class_one_skip(level, parent_level) ==
    IF level <= parent_level + 2 THEN "ok" ELSE "error"
css_class(level, parent_level) ==
    IF level = parent_level + 1 THEN "ok" ELSE "error"

\* the headings written for node and below, in the order written
RECURSIVE write_tree_html(_, _, _)
RECURSIVE write_children(_, _, _)
write_tree_html(ns, node, parent_level) ==
    (IF ns[node].level # 0
     THEN <<[node |-> node, level |-> ns[node].level,
             title |-> ns[node].title,
             css_class |-> css_class(ns[node].level, parent_level)]>>
     ELSE <<>>)
    \o write_children(ns, ns[node].children, ns[node].level)
write_children_last_first(ns, kids, level) ==
    IF kids = <<>> THEN <<>>
    ELSE write_tree_html(ns, kids[Len(kids)], level)
         \o write_children(ns, SubSeq(kids, 1, Len(kids) - 1), level)
write_children(ns, kids, level) ==
    IF kids = <<>> THEN <<>>
    ELSE write_tree_html(ns, kids[1], level)
         \o write_children(ns, Tail(kids), level)

\* print_tree of crawl.py: the lines written for node and below, in the
\* order written
RECURSIVE print_tree(_, _, _)
RECURSIVE print_children(_, _, _)
print_tree(ns, node, indent) ==
    (IF ns[node].level # 0
     THEN <<[indent |-> indent, level |-> ns[node].level,
             title |-> ns[node].title]>>
     ELSE <<>>)
    \o print_children(ns, ns[node].children, indent + 1)
print_children(ns, kids, indent) ==
    IF kids = <<>> THEN <<>>
    ELSE print_tree(ns, kids[1], indent)
         \o print_children(ns, Tail(kids), indent)

\* lines 383 and 524: if not headings
no_headings_never(hs) == FALSE
no_headings(hs) == hs = <<>>

\* lines 392-393: if errors_found: page_structures[url]['error_flags']
\* .append(True)
update_error_flags_assign(flags, errors) == errors
update_error_flags(flags, errors) ==
    IF errors # <<>> THEN Append(flags, TRUE) ELSE flags

\* line 410: any(data.get('error_flags', []))
any(flags) == \E k \in 1..Len(flags) : flags[k]

\* line 411: css_class = "error" if has_error else "ok"
report_css_class_all(flags) ==
    IF \A k \in 1..Len(flags) : flags[k] THEN "error" ELSE "ok"
report_css_class(flags) == IF any(flags) THEN "error" ELSE "ok"

\* errors_found after the call: one True per heading written as "error"
render_errors(ms) ==
    [k \in 1..Len(SelectSeq(ms, LAMBDA m : m.css_class = "error")) |-> TRUE]

-----------------------------------------------------------------------------
(* One page through main's check and generate_combined_html's render pass *)

\* h1 .. h6
MaxLevel == 6
Levels == 1..MaxLevel

PositionTitles == <<"A", "B", "C", "D", "E", "F">>
PositionTitle(i) == PositionTitles[((i - 1) % Len(PositionTitles)) + 1]

\* heading lists: every sequence of levels, titled A, B, C, ... in order
\* (no step of build_tree, of the check or of the render pass reads a title)
TreeInputs ==
    {[i \in 1..Len(ls) |-> [level |-> ls[i], title |-> PositionTitle(i)]]
       : ls \in SeqsUpTo(Levels, MaxHeadings)}

\* what get_headings may return for a page: ("No Title", []) when the
\* request failed, else the title and the headings in document order
TreePages ==
    {[title |-> "No Title", headings |-> <<>>]}
    \cup {[title |-> "Title", headings |-> hs] : hs \in TreeInputs}

InitTree ==
    /\ \E got \in TreePages :
           page_title = got.title /\ headings = got.headings
    /\ placeholder = FALSE /\ report_class = "unwritten"
    /\ t_pc = "main" /\ t_i = 0 /\ nodes = <<>> /\ stack = <<>>
    /\ raised = FALSE /\ v_stack = <<>> /\ v_at = 0 /\ errors_found = <<>>
    /\ error_flags = <<>> /\ marks = <<>>
    /\ CrawlIdle /\ NormIdle /\ RobotsIdle /\ ToggleIdle

\* lines 524-527: no headings, the page is not checked
MainSkipEmpty ==
    /\ t_pc = "main" /\ no_headings(headings)
    /\ t_pc' = "validated"
    /\ UNCHANGED <<page_title, placeholder, report_class,
                   headings, t_i, nodes, stack, raised, v_stack, v_at,
                   errors_found, error_flags, marks>>

\* line 529 and line 386: a call of build_tree begins
BuildTreeCall(from, to) ==
    /\ t_pc = from /\ ~no_headings(headings)
    /\ nodes' = build_tree_start.nodes
    /\ stack' = build_tree_start.stack
    /\ raised' = build_tree_start.raised
    /\ t_i' = 0
    /\ t_pc' = to
    /\ UNCHANGED <<page_title, placeholder, report_class,
                   headings, v_stack, v_at, error_flags, marks>>

MainBuildTree ==
    BuildTreeCall("main", "build_main") /\ UNCHANGED errors_found

\* line 388: errors_found = []
RenderBuildTree ==
    BuildTreeCall("validated", "build_render") /\ errors_found' = <<>>

\* lines 96-105: one heading
BuildTreeIter ==
    /\ t_pc \in {"build_main", "build_render"}
    /\ t_i < Len(headings) /\ ~raised
    /\ LET t == build_tree_iter([nodes |-> nodes, stack |-> stack,
                                 raised |-> raised],
                                t_i + 1, headings[t_i + 1])
       IN  nodes' = t.nodes /\ stack' = t.stack /\ raised' = t.raised
    /\ t_i' = t_i + 1
    /\ UNCHANGED <<page_title, placeholder, report_class,
                   headings, t_pc, v_stack, v_at, errors_found, error_flags,
                   marks>>

\* lines 530-532: errors_found = []; stack = [0]
ValidateStart ==
    /\ t_pc = "build_main" /\ t_i = Len(headings) /\ ~raised
    /\ v_stack' = validate_start.stack
    /\ errors_found' = validate_start.errors_found
    /\ v_at' = validate_start.at
    /\ t_i' = 0
    /\ t_pc' = "validate"
    /\ UNCHANGED <<page_title, placeholder, report_class,
                   headings, nodes, stack, raised, error_flags, marks>>

\* lines 533-540: one heading
ValidateIter ==
    /\ t_pc = "validate" /\ t_i < Len(headings) /\ v_at = 0
    /\ LET v == validate_iter([stack |-> v_stack,
                               errors_found |-> errors_found,
                               at |-> v_at, broke |-> FALSE],
                              t_i + 1, headings[t_i + 1])
       IN  /\ v_stack' = v.stack
           /\ errors_found' = v.errors_found
           /\ v_at' = v.at
           /\ t_i' = IF v.broke THEN t_i ELSE t_i + 1
    /\ UNCHANGED <<page_title, placeholder, report_class,
                   headings, t_pc, nodes, stack, raised, error_flags, marks>>

\* line 542: data['error_flags'] = errors_found
ValidateEnd ==
    /\ t_pc = "validate" /\ (t_i = Len(headings) \/ v_at # 0)
    /\ error_flags' = errors_found
    /\ t_pc' = "validated"
    /\ UNCHANGED <<page_title, placeholder, report_class,
                   headings, t_i, nodes, stack, raised, v_stack, v_at,
                   errors_found, marks>>

\* lines 382-383: the placeholder
RenderEmpty ==
    /\ t_pc = "validated" /\ no_headings(headings)
    /\ placeholder' = TRUE
    /\ t_pc' = "done_placeholder"
    /\ UNCHANGED <<page_title, report_class,
                   headings, t_i, nodes, stack, raised, v_stack, v_at,
                   errors_found, error_flags, marks>>

\* lines 390-393: write_tree_html on the tree, then the page's flag
RenderWrite ==
    /\ t_pc = "build_render" /\ t_i = Len(headings) /\ ~raised
    /\ marks' = write_tree_html(nodes, 0, 0)
    /\ errors_found' = render_errors(marks')
    /\ error_flags' = update_error_flags(error_flags, errors_found')
    /\ t_pc' = "done"
    /\ UNCHANGED <<page_title, placeholder, report_class,
                   headings, t_i, nodes, stack, raised, v_stack, v_at>>

\* lines 409-413: the page's item of the report list
WriteReportItem ==
    /\ t_pc \in {"done", "done_placeholder"}
    /\ report_class' = report_css_class(error_flags)
    /\ t_pc' = "reported"
    /\ UNCHANGED <<page_title, placeholder, headings, t_i, nodes, stack,
                   raised, v_stack, v_at, errors_found, error_flags, marks>>

NextTree ==
    \/ MainSkipEmpty /\ UNCHANGED <<crawlVars, normVars, robotsVars,
                                 toggleVars>>
    \/ MainBuildTree /\ UNCHANGED <<crawlVars, normVars, robotsVars,
                                 toggleVars>>
    \/ BuildTreeIter /\ UNCHANGED <<crawlVars, normVars, robotsVars,
                                 toggleVars>>
    \/ ValidateStart /\ UNCHANGED <<crawlVars, normVars, robotsVars,
                                 toggleVars>>
    \/ ValidateIter /\ UNCHANGED <<crawlVars, normVars, robotsVars,
                                 toggleVars>>
    \/ ValidateEnd /\ UNCHANGED <<crawlVars, normVars, robotsVars,
                                 toggleVars>>
    \/ RenderEmpty /\ UNCHANGED <<crawlVars, normVars, robotsVars,
                                 toggleVars>>
    \/ RenderBuildTree /\ UNCHANGED <<crawlVars, normVars, robotsVars,
                                 toggleVars>>
    \/ RenderWrite /\ UNCHANGED <<crawlVars, normVars, robotsVars,
                                 toggleVars>>
    \/ WriteReportItem /\ UNCHANGED <<crawlVars, normVars, robotsVars,
                                     toggleVars>>

SpecTree == InitTree /\ [][NextTree]_vars

-----------------------------------------------------------------------------
(* Properties of build_tree, the structural check and the render pass *)

TreeBuilt == t_pc \in {"build_main", "build_render"} /\ t_i = Len(headings)

\* the nodes that list c among their children
ParentsOf(ns, c) ==
    {p \in DOMAIN ns : \E k \in 1..Len(ns[p].children) : ns[p].children[k] = c}

\* the nearest preceding heading of strictly smaller level, 0 (the root)
\* when there is none
NearestSmaller(hs, i) ==
    LET smaller == {j \in 1..(i - 1) : hs[j].level < hs[i].level}
    IN  IF smaller = {} THEN 0
        ELSE CHOOSE j \in smaller : \A k \in smaller : k <= j

\* the level of the heading just before position i, 0 before the first
PrevLevel(hs, i) == IF i = 1 THEN 0 ELSE hs[i - 1].level

\* the positions whose level is more than one above the level before them
Skips(hs) == {i \in 1..Len(hs) : hs[i].level > PrevLevel(hs, i) + 1}

\* C7: in build_tree every non-root node's level is strictly greater than
\* its parent's level, the virtual root stays at the bottom of the stack,
\* and no attach finds the stack empty (stack[-1] never raises).
C7_TreeLevelsIncrease ==
    /\ ~raised
    /\ t_pc \in {"build_main", "build_render"} =>
           /\ stack # <<>>
           /\ stack[1] = 0
           /\ DOMAIN nodes = 0..t_i
    /\ \A c \in DOMAIN nodes \ {0} :
           /\ ParentsOf(nodes, c) # {}
           /\ \A p \in ParentsOf(nodes, c) : nodes[c].level > nodes[p].level

\* a finished tree of three headings with a drop and a repeated level
C7_Witness ==
    /\ TreeBuilt /\ Len(headings) >= 3
    /\ headings[1].level > headings[2].level
    /\ headings[2].level = headings[3].level
    /\ ParentsOf(nodes, 3) = {0}

Scenario2 ==
    <<[level |-> 1, title |-> "A"], [level |-> 2, title |-> "B"],
      [level |-> 2, title |-> "C"], [level |-> 1, title |-> "D"]>>

\* C8: build_tree makes heading i a child of the nearest preceding heading
\* of strictly smaller level, or of the root when there is none; a heading
\* has one parent and is listed once; [(1,A),(2,B),(2,C),(1,D)] gives
\* root -> [A, D] and A -> [B, C].
C8_ParentIsNearestSmaller ==
    /\ \A c \in DOMAIN nodes \ {0} :
           /\ ParentsOf(nodes, c) = {NearestSmaller(headings, c)}
           /\ nodes[c].level = headings[c].level
           /\ nodes[c].title = headings[c].title
    /\ \A p \in DOMAIN nodes :
           \A k, l \in 1..Len(nodes[p].children) :
               k < l => nodes[p].children[k] < nodes[p].children[l]
    /\ (TreeBuilt /\ headings = Scenario2) =>
           /\ nodes[0].children = <<1, 4>>
           /\ nodes[1].children = <<2, 3>>
           /\ nodes[2].children = <<>> /\ nodes[3].children = <<>>
           /\ nodes[4].children = <<>>

\* the tree of scenario 2, and a level skip nested without rejection
C8_Witness ==
    \/ TreeBuilt /\ headings = Scenario2 /\ t_pc = "build_render"
    \/ /\ TreeBuilt /\ Len(headings) = 2
       /\ headings[1].level = 1 /\ headings[2].level = 3
       /\ nodes[1].children = <<2>>

\* C9: the check of main flags a page exactly when some heading's level is
\* more than one above the level of the heading just before it (0 before
\* the first); it stops at the first such heading, records one flag, and
\* never flags an empty page.
C9_ValidatorFlagsSkips ==
    t_pc = "validated" =>
        /\ (error_flags # <<>>) <=> (Skips(headings) # {})
        /\ Skips(headings) # {} =>
               /\ v_at \in Skips(headings)
               /\ \A i \in Skips(headings) : v_at <= i
               /\ t_i = v_at - 1
               /\ error_flags = <<TRUE>>
        /\ Skips(headings) = {} => v_at = 0 /\ t_i = Len(headings)
        /\ headings = <<>> => error_flags = <<>>

\* a page flagged at its second heading although a later one skips too
C9_Witness ==
    /\ t_pc = "validated" /\ error_flags # <<>>
    /\ v_at = 2 /\ Cardinality(Skips(headings)) >= 2

\* C10 as amended: on every heading list the check of main accepts, the
\* render pass marks every heading "ok", same-level siblings included.
C10_RendererAgreesWhenAccepted ==
    (t_pc = "done" /\ v_at = 0) =>
        /\ Len(marks) = Len(headings)
        /\ \A k \in 1..Len(marks) : marks[k].css_class = "ok"
        /\ error_flags = <<>>

\* an accepted page with two same-level siblings below a heading, rendered
C10_Witness ==
    /\ t_pc = "done" /\ v_at = 0
    /\ \E p \in DOMAIN nodes \ {0} : Len(nodes[p].children) >= 2

\* C10 as stated: among the heading lists a page may have, some list is
\* accepted by the check of main and yet has a heading, with a sibling of
\* its own level, marked "error" by the render pass.
C10_Original ==
    /\ headings \in TreeInputs
    /\ \E hs \in TreeInputs \ {<<>>} :
        /\ validate(hs) = <<>>
        /\ LET ns == build_tree(hs).nodes
               ms == write_tree_html(ns, 0, 0)
           IN  \E k \in 1..Len(ms) :
                   /\ ms[k].css_class = "error"
                   /\ \E o \in DOMAIN ns \ {0, ms[k].node} :
                          /\ ParentsOf(ns, o) = ParentsOf(ns, ms[k].node)
                          /\ ns[o].level = ms[k].level

-----------------------------------------------------------------------------
(* is_allowed on one response to the request for robots.txt *)

RobotsLines == {UserAgentStar, Disallow(<<"/">>), Disallow(<<"/", "a">>),
                Disallow(<<>>), Garbage}

Response(kind, status, decodable, lines) ==
    [kind |-> kind, status |-> status, decodable |-> decodable,
     lines |-> lines]

RobotsResponses ==
    {Response(k, 0, FALSE, <<>>) : k \in {"timeout", "refused"}}
    \cup {Response("http", st, FALSE, <<>>) :
            st \in {401, 403, 404, 429, 500, 503}}
    \cup {Response("http", 200, FALSE, <<>>)}
    \cup {Response("http", 200, TRUE, l) :
            l \in SeqsUpTo(RobotsLines, MaxRobotsLines)}

RobotsUrls == {Seed, Seed \o <<"/", "a">>, Seed \o <<"/", "b">>}

InitRobots ==
    /\ r_url \in RobotsUrls
    /\ r_resp \in RobotsResponses
    /\ r_result = FALSE /\ r_pc = "call"
    /\ CrawlIdle /\ NormIdle /\ TreeIdle /\ ToggleIdle

\* lines 153-164
IsAllowed ==
    /\ r_pc = "call"
    /\ r_result' = is_allowed(r_url, r_resp)
    /\ r_pc' = "returned"
    /\ UNCHANGED <<r_url, r_resp>>

NextRobots ==
    IsAllowed /\ UNCHANGED <<crawlVars, normVars, treeVars, toggleVars>>

SpecRobots == InitRobots /\ [][NextRobots]_vars

\* fetching or parsing robots.txt failed: no response, a 4xx or 5xx status,
\* a body that is not UTF-8, or a body with a line that is no directive
RobotsFailed(resp) ==
    \/ resp.kind \in {"timeout", "refused"}
    \/ resp.status >= 400
    \/ ~resp.decodable
    \/ \E k \in 1..Len(resp.lines) : resp.lines[k] = Garbage

\* C3: is_allowed returns False whenever fetching or parsing robots.txt
\* fails (timeout, connection failure, any 4xx, any 5xx, malformed content).
C3_RobotsFailClosed ==
    (r_pc = "returned" /\ RobotsFailed(r_resp)) => r_result = FALSE

-----------------------------------------------------------------------------
(* crawl_website, then the heading pass of main *)

\* the hrefs a fetched page may hold: /a/, /b#q, /a/?q, https://ot/a and
\* mailto:a
CrawlHrefs ==
    {<<"/", "a", "/">>, <<"/", "b", "#", "q">>, <<"/", "a", "/", "?", "q">>,
     <<"https", ":", "/", "/", "ot", "/", "a">>, <<"mailto", ":", "a">>}

\* the heading lists get_headings may extract from a page that answered
PageHeadings == {<<[level |-> 1, title |-> "A"]>>}

base_url == Seed
base_domain == urlparse(base_url).netloc

\* link_graph is a record of the links found on fetched pages; it is kept
\* where the link paths are looked at and is NotRecorded elsewhere
NotRecorded == {<<>>}
record_link(graph, from, to) ==
    IF graph = NotRecorded THEN graph ELSE graph \cup {<<from, to>>}

Init ==
    /\ max_pages \in 1..MaxPagesBound
    /\ max_depth \in 0..MaxDepthBound
    /\ visited = {base_url}
    /\ queue = <<[url |-> base_url, depth |-> 0]>>
    /\ add_log = <<base_url>> /\ enq_log = <<base_url>> /\ deq_log = <<>>
    /\ pc = "loop" /\ current_url = None /\ depth = 0 /\ links = <<>>
    /\ robots_true = {} /\ robots_false = {} /\ content_fetched = {}
    /\ last = "start" /\ slept = TRUE
    /\ page_structures = <<>> /\ todo = {} /\ responded = {}
    /\ depth_of = (base_url :> 0) /\ link_graph = NotRecorded
    /\ NormIdle /\ TreeIdle /\ RobotsIdle /\ ToggleIdle

\* line 187: while queue and len(visited) < max_pages
loop_test_one_short(q, v, mp) == q # <<>> /\ Cardinality(v) < mp - 1
loop_test(q, v, mp) == q # <<>> /\ Cardinality(v) < mp

\* line 189: if depth > max_depth
depth_exceeded_off_by_one(d, md) == d > md + 1
depth_exceeded(d, md) == d > md

\* line 227: if normalized_href not in visited
not_in_visited_unchecked(url, v) == TRUE
not_in_visited(url, v) == url \notin v

\* line 192: is_allowed(current_url) answers by what robots.txt of the site
\* holds at that moment
robots_may_allow(url) ==
    (\E resp \in RobotsResponses : is_allowed(url, resp)) = TRUE
robots_may_deny(url) ==
    (\E resp \in RobotsResponses : ~is_allowed(url, resp)) = TRUE

\* line 188: current_url, depth = queue.popleft()
Popleft(outcome) ==
    /\ pc = "loop" /\ loop_test(queue, visited, max_pages)
    /\ current_url' = Head(queue).url
    /\ depth' = Head(queue).depth
    /\ queue' = Tail(queue)
    /\ deq_log' = Append(deq_log, Head(queue).url)
    /\ last' = outcome

\* lines 188-190: the entry is too deep
DiscardDepth ==
    /\ Popleft("depth")
    /\ depth_exceeded(depth', max_depth)
    /\ UNCHANGED <<visited, pc, links, max_pages, max_depth, robots_true,
                   robots_false, content_fetched, add_log, enq_log, slept,
                   page_structures, todo, responded,
                   depth_of, link_graph>>

\* lines 188-195: robots.txt does not allow the entry
SkipRobots ==
    /\ Popleft("robots")
    /\ ~depth_exceeded(depth', max_depth)
    /\ robots_may_deny(current_url')
    /\ robots_false' = robots_false \cup {current_url'}
    /\ UNCHANGED <<visited, pc, links, max_pages, max_depth, robots_true,
                   content_fetched, add_log, enq_log, slept, page_structures,
                   todo, responded,
                   depth_of, link_graph>>

\* lines 188-206: the page request fails
FetchFailed_uncaught ==
    /\ Popleft("fetch_failed")
    /\ ~depth_exceeded(depth', max_depth)
    /\ robots_may_allow(current_url')
    /\ robots_true' = robots_true \cup {current_url'}
    /\ content_fetched' = content_fetched \cup {current_url'}
    /\ slept' = FALSE
    /\ pc' = "raised"
    /\ UNCHANGED <<visited, links, max_pages, max_depth, robots_false,
                   add_log, enq_log, page_structures, todo, responded,
                   depth_of, link_graph>>
FetchFailed ==
    /\ Popleft("fetch_failed")
    /\ ~depth_exceeded(depth', max_depth)
    /\ robots_may_allow(current_url')
    /\ robots_true' = robots_true \cup {current_url'}
    /\ content_fetched' = content_fetched \cup {current_url'}
    /\ slept' = FALSE
    /\ UNCHANGED <<visited, pc, links, max_pages, max_depth, robots_false,
                   add_log, enq_log, page_structures, todo, responded,
                   depth_of, link_graph>>

\* lines 188-211: the page answers; its anchors are about to be scanned
Fetched ==
    /\ Popleft("fetched")
    /\ ~depth_exceeded(depth', max_depth)
    /\ robots_may_allow(current_url')
    /\ robots_true' = robots_true \cup {current_url'}
    /\ content_fetched' = content_fetched \cup {current_url'}
    /\ slept' = FALSE
    /\ links' \in SeqsUpTo(CrawlHrefs, MaxLinks)
    /\ pc' = "scan"
    /\ UNCHANGED <<visited, max_pages, max_depth, robots_false, add_log,
                   enq_log, page_structures, todo, responded,
                   depth_of, link_graph>>

\* line 230: queue.append((normalized_href, depth + 1))
child_depth_same(d) == d
child_depth(d) == d + 1

\* lines 227-230: the normalized url is new, or not
Enqueue(url) ==
    IF not_in_visited(url, visited)
    THEN /\ last' = "enqueued"
         /\ visited' = visited \cup {url}
         /\ add_log' = Append(add_log, url)
         /\ queue' = Append(queue, [url |-> url, depth |-> child_depth(depth)])
         /\ enq_log' = Append(enq_log, url)
         /\ depth_of' = (url :> child_depth(depth)) @@ depth_of
    ELSE /\ last' = "duplicate"
         /\ UNCHANGED <<visited, queue, add_log, enq_log, depth_of>>

\* lines 221-230: the resolved href is internal, or not
ScanHref(href) ==
    IF is_internal_link(href, base_domain)
    THEN \E parsed_href \in {urlparse(href)} :
             \E url \in {format_href(parsed_href)} :
                 /\ Enqueue(url)
                 /\ link_graph' = record_link(link_graph, current_url, url)
    ELSE /\ last' = "external"
         /\ UNCHANGED <<visited, queue, add_log, enq_log, depth_of,
                        link_graph>>

\* lines 211-230: one anchor of the page
ScanLink ==
    /\ pc = "scan" /\ links # <<>>
    /\ \E joined \in {urljoin(current_url, Head(links))} :
           \E cut \in {split_hash_0(joined)} :
               \E href \in {rstrip_slash(cut)} : ScanHref(href)
    /\ links' = Tail(links)
    /\ UNCHANGED <<pc, current_url, depth, max_pages, max_depth, robots_true,
                   robots_false, content_fetched, deq_log, slept,
                   page_structures, todo, responded>>

\* line 233: time.sleep(delay)
PolitenessDelay ==
    /\ pc = "scan" /\ links = <<>>
    /\ slept' = TRUE
    /\ last' = "slept"
    /\ pc' = "loop"
    /\ UNCHANGED <<visited, queue, current_url, depth, links, max_pages,
                   max_depth, robots_true, robots_false, content_fetched,
                   add_log, enq_log, deq_log, page_structures, todo, responded,
                   depth_of, link_graph>>

\* lines 187 and 235: the loop ends, visited is returned
Return_inside_loop ==
    /\ pc = "loop" /\ last # "start"
    /\ pc' = "returned"
    /\ UNCHANGED <<visited, queue, current_url, depth, links, max_pages,
                   max_depth, robots_true, robots_false, content_fetched,
                   add_log, enq_log, deq_log, last, slept, page_structures,
                   todo, responded,
                   depth_of, link_graph>>
Return ==
    /\ pc = "loop" /\ ~loop_test(queue, visited, max_pages)
    /\ pc' = "returned"
    /\ UNCHANGED <<visited, queue, current_url, depth, links, max_pages,
                   max_depth, robots_true, robots_false, content_fetched,
                   add_log, enq_log, deq_log, last, slept, page_structures,
                   todo, responded,
                   depth_of, link_graph>>

\* lines 503-510: subpages = crawl_website(base_url); page_structures = {}
MainStart ==
    /\ pc = "returned" /\ visited # {}
    /\ todo' = visited
    /\ page_structures' = <<>>
    /\ pc' = "headings"
    /\ UNCHANGED <<visited, queue, current_url, depth, links, max_pages,
                   max_depth, robots_true, robots_false, content_fetched,
                   add_log, enq_log, deq_log, last, slept, responded,
                   depth_of, link_graph>>

\* get_headings(url): ("No Title", []) when the request fails
get_headings_results ==
    {[response |-> FALSE, title |-> "No Title", headings |-> <<>>]}
    \cup {[response |-> TRUE, title |-> "Title", headings |-> hs] :
            hs \in PageHeadings}

\* lines 511-519: one url of subpages, in the set's own order
GetHeadings ==
    /\ pc = "headings"
    /\ \E url \in todo, got \in get_headings_results :
           /\ content_fetched' = content_fetched \cup {url}
           /\ page_structures' =
                  [u \in DOMAIN page_structures \cup {url} |->
                     IF u = url
                     THEN [title |-> got.title, headings |-> got.headings,
                           error_flags |-> <<>>]
                     ELSE page_structures[u]]
           /\ todo' = todo \ {url}
           /\ responded' = IF got.response THEN responded \cup {url}
                            ELSE responded
    /\ UNCHANGED <<visited, queue, pc, current_url, depth, links, max_pages,
                   max_depth, robots_true, robots_false, add_log, enq_log,
                   deq_log, last, slept, depth_of, link_graph>>

\* line 520: every url of subpages has its entry
HeadingsDone ==
    /\ pc = "headings" /\ todo = {}
    /\ pc' = "collected"
    /\ UNCHANGED <<visited, queue, current_url, depth, links, max_pages,
                   max_depth, robots_true, robots_false, content_fetched,
                   add_log, enq_log, deq_log, last, slept, page_structures,
                   todo, responded,
                   depth_of, link_graph>>

Next ==
    \/ DiscardDepth /\ UNCHANGED <<normVars, treeVars, robotsVars, toggleVars>>
    \/ SkipRobots /\ UNCHANGED <<normVars, treeVars, robotsVars, toggleVars>>
    \/ FetchFailed /\ UNCHANGED <<normVars, treeVars, robotsVars, toggleVars>>
    \/ Fetched /\ UNCHANGED <<normVars, treeVars, robotsVars, toggleVars>>
    \/ ScanLink /\ UNCHANGED <<normVars, treeVars, robotsVars, toggleVars>>
    \/ PolitenessDelay /\ UNCHANGED <<normVars, treeVars, robotsVars, toggleVars>>
    \/ Return /\ UNCHANGED <<normVars, treeVars, robotsVars, toggleVars>>
    \/ MainStart /\ UNCHANGED <<normVars, treeVars, robotsVars, toggleVars>>
    \/ GetHeadings /\ UNCHANGED <<normVars, treeVars, robotsVars, toggleVars>>
    \/ HeadingsDone /\ UNCHANGED <<normVars, treeVars, robotsVars, toggleVars>>

Spec == Init /\ [][Next]_vars

\* crawl_website alone, from its call to its return
NextCrawl ==
    \/ DiscardDepth /\ UNCHANGED <<normVars, treeVars, robotsVars, toggleVars>>
    \/ SkipRobots /\ UNCHANGED <<normVars, treeVars, robotsVars, toggleVars>>
    \/ FetchFailed /\ UNCHANGED <<normVars, treeVars, robotsVars, toggleVars>>
    \/ Fetched /\ UNCHANGED <<normVars, treeVars, robotsVars, toggleVars>>
    \/ ScanLink /\ UNCHANGED <<normVars, treeVars, robotsVars, toggleVars>>
    \/ PolitenessDelay /\ UNCHANGED <<normVars, treeVars, robotsVars,
                                     toggleVars>>
    \/ Return /\ UNCHANGED <<normVars, treeVars, robotsVars, toggleVars>>

SpecCrawl == Init /\ [][NextCrawl]_vars

\* the program is sequential and every request it makes ends (an answer, an
\* error or a timeout), so a step of crawl_website that can be taken is taken
SpecCrawlLive == SpecCrawl /\ WF_vars(NextCrawl)

\* crawl_website with the links of the fetched pages recorded
InitLinks ==
    /\ max_pages \in 1..MaxPagesBound
    /\ max_depth \in 0..MaxDepthBound
    /\ visited = {base_url}
    /\ queue = <<[url |-> base_url, depth |-> 0]>>
    /\ add_log = <<base_url>> /\ enq_log = <<base_url>> /\ deq_log = <<>>
    /\ pc = "loop" /\ current_url = None /\ depth = 0 /\ links = <<>>
    /\ robots_true = {} /\ robots_false = {} /\ content_fetched = {}
    /\ last = "start" /\ slept = TRUE
    /\ page_structures = <<>> /\ todo = {} /\ responded = {}
    /\ depth_of = (base_url :> 0) /\ link_graph = {}
    /\ NormIdle /\ TreeIdle /\ RobotsIdle /\ ToggleIdle

SpecLinks == InitLinks /\ [][NextCrawl]_vars

-----------------------------------------------------------------------------
(* Properties of the crawl and of the link normalisation *)

NoDuplicates(log) ==
    \A i, j \in 1..Len(log) : i # j => log[i] # log[j]

Range(log) == {log[i] : i \in 1..Len(log)}

\* C1: visited never holds more than max_pages URLs, also while the
\* anchors of the current page are being scanned.
C1_VisitedBounded ==
    pc # "idle" => Cardinality(visited) <= max_pages

\* C2: over crawl_website and the heading pass of main, a URL is requested
\* for content only after is_allowed returned True for it.
C2_FetchedOnlyIfAllowed ==
    content_fetched \subseteq robots_true

\* C4: a dequeued entry deeper than max_depth is dropped with no robots
\* check, no page request and no enqueue, and its url stays in visited.
C4_TooDeepIsDiscarded ==
    [][(/\ pc = "loop" /\ loop_test(queue, visited, max_pages)
        /\ Head(queue).depth > max_depth)
       => (/\ queue' = Tail(queue)
           /\ visited' = visited
           /\ Head(queue).url \in visited'
           /\ Head(queue).url \notin robots_true' \cup robots_false'
           /\ robots_true' = robots_true /\ robots_false' = robots_false
           /\ content_fetched' = content_fetched
           /\ enq_log' = enq_log /\ add_log' = add_log
           /\ pc' = "loop")]_vars

\* an entry of depth max_depth + 1 has just been dropped
C4_Witness ==
    /\ last = "depth" /\ depth > max_depth
    /\ current_url \in visited
    /\ current_url \notin robots_true \cup robots_false \cup content_fetched

\* C6: a URL is added to visited once at most and appended to the queue
\* once at most, both at the same time; every URL that is queued or was
\* dequeued is in visited.
C6_AddedOnceAtEnqueue ==
    pc # "idle" =>
        /\ NoDuplicates(add_log)
        /\ NoDuplicates(enq_log)
        /\ add_log = enq_log
        /\ Range(add_log) = visited
        /\ \A i \in 1..Len(queue) : queue[i].url \in visited
        /\ Range(deq_log) \subseteq visited
        /\ enq_log = deq_log \o [i \in 1..Len(queue) |-> queue[i].url]

\* an anchor to a URL already in visited has just been passed over
C6_Witness ==
    /\ last = "duplicate" /\ Len(enq_log) >= 2 /\ Len(deq_log) >= 1
    /\ Len(queue) >= 1

\* C5: the normalisation of crawl_website is idempotent: applied to the URL
\* it built, it builds the same URL, also for an href with a query string
\* or with a path ending in '/' before the query.
C5_NormalizeIdempotent ==
    n_pc = "twice" => n_twice = n_once

\* the urls of the entries of the queue, in order
QueueUrls == [i \in 1..Len(queue) |-> queue[i].url]

\* a step of the loop that requests the page of the entry it dequeues
FetchAttempt ==
    deq_log' # deq_log /\ last' \in {"fetched", "fetch_failed"}

\* C11: when the request for a dequeued page fails the crawl does not stop:
\* the step removes the entry from the queue, adds nothing to visited or to
\* the queue and returns to the test of the loop; from there, while entries
\* are left and visited is below max_pages, the next step dequeues the next
\* entry.
C11_FetchFailureIsSkipped ==
    [][/\ (deq_log' # deq_log /\ last' = "fetch_failed") =>
              /\ visited' = visited /\ add_log' = add_log
              /\ queue' = Tail(queue) /\ enq_log' = enq_log
              /\ links' = links /\ pc' = "loop"
       /\ (/\ last = "fetch_failed" /\ pc = "loop"
           /\ loop_test(queue, visited, max_pages)) =>
              /\ deq_log' = Append(deq_log, Head(queue).url)
              /\ current_url' = Head(queue).url]_vars

\* the request for the second page failed with an entry left in the queue
\* and visited below max_pages
C11_Witness ==
    /\ last = "fetch_failed" /\ pc = "loop" /\ Len(deq_log) >= 2
    /\ loop_test(queue, visited, max_pages)

\* C12 as amended: an entry is dequeued once at most, in the order of its
\* enqueue; crawl_website returns with an empty queue or with visited at
\* max_pages or above, and the entries then left in the queue are exactly
\* those that were never dequeued.
C12_DequeuedAtMostOnce ==
    pc # "idle" =>
        /\ NoDuplicates(deq_log)
        /\ Len(deq_log) <= Len(enq_log)
        /\ deq_log = SubSeq(enq_log, 1, Len(deq_log))
        /\ pc = "returned" =>
               /\ queue = <<>> \/ Cardinality(visited) >= max_pages
               /\ QueueUrls = SubSeq(enq_log, Len(deq_log) + 1, Len(enq_log))

\* the crawl returned after two pages with an entry still in the queue
C12_Witness ==
    /\ pc = "returned" /\ queue # <<>> /\ Len(deq_log) >= 2
    /\ Cardinality(visited) >= max_pages

\* C12 as stated: crawl_website returns only with an empty queue, every
\* entry that was enqueued having been dequeued.
C12_Original ==
    pc = "returned" => queue = <<>> /\ deq_log = enq_log

\* C13: a page request of the loop is made only after the politeness delay
\* that follows the request before it, whatever that request's outcome and
\* whatever entries were dropped in between.
C13_DelayBetweenAttempts ==
    [][FetchAttempt => slept]_vars

\* the urls the crawl dropped: denied by robots.txt, or dequeued too deep
Discarded ==
    robots_false \cup (Range(deq_log) \ (robots_true \cup robots_false))

\* C14: page_structures gets an entry only for a URL whose request in
\* get_headings was answered, and none for a URL the crawl dropped.
C14_ResultOnlyWithResponse ==
    \A u \in DOMAIN page_structures : u \in responded /\ u \notin Discarded

\* an entry of the queue the loop would request: not too deep, and allowed by
\* some answer to the request for robots.txt
Fetchable(e) ==
    /\ e.depth <= max_depth
    /\ \E resp \in RobotsResponses : is_allowed(e.url, resp)

-----------------------------------------------------------------------------
(* Properties of generate_combined_html *)

\* a step of generate_combined_html on the page
RenderStep ==
    t_pc \in {"validated", "build_render", "done", "done_placeholder"}

HasErrorMark(ms) == \E k \in 1..Len(ms) : ms[k].css_class = "error"

\* C15 as amended: generate_combined_html leaves the title and the headings
\* of a page as they were, and changes its error_flags in one way only: it
\* appends True when the render pass of the page marked a heading "error".
C15_RenderOnlyAppendsFlag ==
    [][RenderStep =>
          /\ page_title' = page_title
          /\ headings' = headings
          /\ error_flags' \in {error_flags, Append(error_flags, TRUE)}
          /\ error_flags' # error_flags <=>
                 (t_pc' = "done" /\ HasErrorMark(marks'))]_vars

\* a page flagged by the check of main got a second flag from the render
\* pass
C15_Witness ==
    t_pc = "done" /\ v_at # 0 /\ error_flags = <<TRUE, TRUE>>

\* C15 as stated: no step of generate_combined_html changes the title, the
\* headings or the error_flags of a page.
C15_Original ==
    [][RenderStep =>
          /\ page_title' = page_title
          /\ headings' = headings
          /\ error_flags' = error_flags]_vars

\* C17: a page without headings is never handed to build_tree or to
\* write_tree_html; its block gets the "No headings found" placeholder, its
\* error_flags stay empty and its report item is "ok"; a page with headings
\* gets no placeholder.
C17_EmptyPageGetsPlaceholder ==
    /\ headings = <<>> =>
           /\ t_pc \in {"main", "validated", "done_placeholder", "reported"}
           /\ ~raised /\ nodes = <<>> /\ marks = <<>>
           /\ error_flags = <<>>
           /\ placeholder <=> t_pc \in {"done_placeholder", "reported"}
           /\ t_pc = "reported" => report_class = "ok"
    /\ (headings # <<>> /\ t_pc # "idle") => ~placeholder

\* the report item of a page whose request failed has been written
C17_Witness ==
    /\ headings = <<>> /\ page_title = "No Title" /\ t_pc = "reported"
    /\ placeholder /\ report_class = "ok"

\* the level of the node that lists c among its children
ParentLevel(ns, c) == ns[CHOOSE p \in ParentsOf(ns, c) : TRUE].level

\* C19: the render pass writes every heading once and marks it "ok" exactly
\* when its level is the level of its parent in the tree plus one (the root
\* has level 0); the report item of the page is "error" exactly when the
\* render pass marked some heading "error".
C19_ReportClassFromRenderMarks ==
    /\ t_pc = "done" \/ (t_pc = "reported" /\ headings # <<>>) =>
           /\ Len(marks) = Len(headings)
           /\ \A k \in 1..Len(marks) :
                  /\ \A l \in 1..Len(marks) :
                         k # l => marks[k].node # marks[l].node
                  /\ marks[k].level = headings[marks[k].node].level
                  /\ marks[k].css_class = "ok" <=>
                         marks[k].level = ParentLevel(nodes, marks[k].node) + 1
    /\ t_pc = "reported" =>
           /\ report_class \in {"ok", "error"}
           /\ report_class = "error" <=> HasErrorMark(marks)

\* a report item written "error" for a page with a heading marked "ok", a
\* same-level sibling included, and a heading marked "error"
C19_Witness ==
    /\ t_pc = "reported" /\ report_class = "error"
    /\ \E k \in 1..Len(marks) : marks[k].css_class = "ok"
    /\ \E k \in 1..Len(marks) :
           marks[k].css_class = "error" /\ marks[k].level > 1
    /\ \E p \in DOMAIN nodes : Len(nodes[p].children) >= 2

-----------------------------------------------------------------------------
(* toggleContent in the document generate_combined_html writes *)

PageIds == <<"page0", "page1", "page2", "page3", "page4", "page5">>

\* lines 373-377 and 398: one content block per page, in the order of
\* page_structures, then the block of the report
content_ids(n) ==
    [i \in 1..(n + 1) |-> IF i <= n THEN PageIds[i] ELSE "report"]

\* the style sheet: .content is display: none, .active is display: block
display(id, act) == IF id \in act THEN "block" ELSE "none"

\* lines 427-430: classList.remove('active') on contents[i], contents[i+1],
\* ...; the loop of the script starts at the first block
RECURSIVE remove_active(_, _, _)
remove_active(cs, act, i) ==
    IF i > Len(cs) THEN act
    ELSE remove_active(cs, act \ {cs[i]}, i + 1)

remove_all_but_first(cs, act) == remove_active(cs, act, 2)
remove_all(cs, act) == remove_active(cs, act, 1)

\* lines 421-433: the set of blocks of class active after toggleContent(id)
toggleContent(cs, act, id) ==
    IF id \in act THEN act \ {id}
    ELSE remove_all(cs, act) \cup {id}

\* the document as loaded: no block is active (the onload handler is
\* commented out)
InitToggle ==
    /\ \E n \in 1..MaxBlocks : contents = content_ids(n)
    /\ active = {} /\ calls = <<>>
    /\ CrawlIdle /\ NormIdle /\ TreeIdle /\ RobotsIdle

\* a click on the button of a block
ToggleContent ==
    /\ contents # <<>> /\ Len(calls) < MaxToggles
    /\ \E i \in 1..Len(contents) :
           /\ active' = toggleContent(contents, active, contents[i])
           /\ calls' = Append(calls, contents[i])
    /\ UNCHANGED contents

NextToggle ==
    ToggleContent /\ UNCHANGED <<crawlVars, normVars, treeVars, robotsVars>>

SpecToggle == InitToggle /\ [][NextToggle]_vars

\* the blocks the browser shows
Visible ==
    {contents[i] : i \in {j \in 1..Len(contents) :
                             display(contents[j], active) = "block"}}

\* C16: before and after every call of toggleContent at most one content
\* block is visible; a call on a hidden block leaves that block the only
\* visible one, a call on the visible block leaves none visible.
C16_AtMostOneVisible ==
    [][/\ Cardinality(Visible) <= 1
       /\ Cardinality(Visible') <= 1
       /\ \A i \in 1..Len(contents) :
              calls' = Append(calls, contents[i]) =>
                  IF display(contents[i], active) = "none"
                  THEN Visible' = {contents[i]}
                  ELSE Visible' = {}]_vars

\* a page block was shown, the report replaced it, and a second call on the
\* report hid it
C16_Witness ==
    /\ Len(calls) = 3 /\ calls[1] = "page0" /\ calls[2] = "report"
    /\ calls[3] = "report" /\ Visible = {}

-----------------------------------------------------------------------------
(* Properties of the link normalisation *)

\* a path without one trailing slash; "/" for the root and for no path
strip_one_slash(path) ==
    IF path = <<>> \/ path = <<"/">> THEN <<"/">>
    ELSE IF path[Len(path)] = "/" THEN SubSeq(path, 1, Len(path) - 1)
    ELSE path

\* scheme://netloc/path of the resolved href, the path without one
\* trailing slash
OneSlashRemoved(base, href) ==
    LET p == urlparse(urljoin(base, href))
    IN  p.scheme \o <<":", "/", "/">> \o p.netloc \o strip_one_slash(p.path)

-----------------------------------------------------------------------------
(* Properties of the depths of the crawl *)

\* the URLs at most k links from the seed, over links found on fetched pages
LinkedFrom(S) == S \cup {e[2] : e \in {f \in link_graph : f[1] \in S}}

RECURSIVE Within(_)
Within(k) ==
    IF k = 0 THEN {base_url}
    ELSE UNION {LinkedFrom(S) : S \in {Within(k - 1)}}

\* the URLs tagged with a depth of at most k
TaggedUpTo(k) == {u \in DOMAIN depth_of : depth_of[u] <= k}

\* C21: the depths of the queued entries never decrease from head to tail
\* and the last is at most one more than the first; no entry is deeper than
\* max_depth + 1; the depth tagged on a URL is the length of the shortest
\* link path from the seed over the pages that were fetched (for every k the
\* URLs tagged k or less are the URLs at most k links from the seed).
C21_QueueDepthsAreBfsLevels ==
    /\ \A i \in 1..(Len(queue) - 1) : queue[i].depth <= queue[i + 1].depth
    /\ queue # <<>> => queue[Len(queue)].depth <= queue[1].depth + 1
    /\ \A i \in 1..Len(queue) :
           /\ queue[i].depth <= max_depth + 1
           /\ queue[i].depth = depth_of[queue[i].url]
    /\ DOMAIN depth_of = visited
    /\ \A k \in 0..Cardinality(visited) : TaggedUpTo(k) = Within(k)

\* the queue holds entries of depth 1 and of depth 2, and a page other than
\* the seed linked to a URL that already had a depth no larger than its own
C21_Witness ==
    /\ Len(queue) >= 2 /\ queue[1].depth = 1
    /\ queue[Len(queue)].depth = 2
    /\ \E e \in link_graph :
           e[1] # base_url /\ e[1] # e[2] /\ depth_of[e[2]] <= depth_of[e[1]]

-----------------------------------------------------------------------------
(* Properties of the URLs in visited *)

\* C22: every member of the visited set crawl_website returns, the seed
\* included, is in normalized form: the normalisation of lines 214-226
\* applied to it builds the same string.
C22_VisitedIsNormalized ==
    pc = "returned" =>
        \A u \in visited : normalized_href(resolve_href(base_url, u)) = u

\* C23: every URL in visited or in the queue has the authority of the seed;
\* no link to another host and no link of a scheme without authority is
\* ever added.
C23_OnlySeedAuthority ==
    \A u \in visited \cup Range(QueueUrls) : urlparse(u).netloc = base_domain

-----------------------------------------------------------------------------
(* Properties of the traversals of the tree *)

\* the k-th line written is the k-th heading
SameHeadings(out, hs) ==
    /\ Len(out) = Len(hs)
    /\ \A k \in 1..Len(out) :
           out[k].level = hs[k].level /\ out[k].title = hs[k].title

\* C24: the headings write_tree_html and print_tree write for the tree of
\* build_tree, the root left out, are the input sequence in its order: no
\* heading is lost, written twice or moved, and the children of every node
\* are in document order.
C24_PreorderIsInput ==
    /\ TreeBuilt => SameHeadings(print_tree(nodes, 0, 0), headings)
    /\ t_pc = "done" =>
           /\ SameHeadings(marks, headings)
           /\ \A k \in 1..Len(marks) : marks[k].node = k
    /\ TreeBuilt \/ t_pc = "done" =>
           \A p \in DOMAIN nodes :
               \A k \in 1..(Len(nodes[p].children) - 1) :
                   nodes[p].children[k] < nodes[p].children[k + 1]

\* a rendered tree whose root has two children, each with a child of its
\* own, all four headings written
C24_Witness ==
    /\ t_pc = "done" /\ Len(marks) = 4
    /\ nodes[0].children = <<1, 3>>
    /\ nodes[1].children = <<2>> /\ nodes[3].children = <<4>>

\* C25: when the check of main flagged the page, the render pass of the same
\* page marks a heading "error": the heading the check stopped at.
C25_FlaggedPageShowsError ==
    (t_pc = "done" /\ v_at # 0) =>
        /\ HasErrorMark(marks)
        /\ marks[v_at].css_class = "error"
        /\ errors_found # <<>>

\* a page flagged at its third heading (h1, h2, h4) and rendered
C25_Witness ==
    /\ t_pc = "done" /\ v_at = 3 /\ Len(headings) >= 3
    /\ headings[1].level = 1 /\ headings[2].level = 2
    /\ headings[3].level = 4

=============================================================================
